---- MODULE Spec2Model ----
(***************************************************************************)
(* Die yield calculator (src/app.py): geometry tiling, corner-based die     *)
(* classification, seeded defect injection and the Monte Carlo runner.      *)
(*                                                                          *)
(* Lengths are integers (mm).  Dictionaries of the source are records, the  *)
(* list of die dictionaries is a sequence of references into a heap, so     *)
(* that d.copy() and in-place writes of d["status"] keep their aliasing.    *)
(* The module-level generator of `random` is one integer state: seeding     *)
(* sets it from the seed, random.random() returns a value and advances it.  *)
(***************************************************************************)
EXTENDS Integers, Sequences, FiniteSets, TLC

VARIABLES
    substrate_type,     \* main(): the selected substrate type
    substrate_params,   \* main(): the substrate_params dictionary
    yield_fraction,     \* main(): yield fraction, in units of 1/RngModulus
    seed_setting,       \* main(): random_seed, the seed setting, or None
    heap,               \* die dictionaries, by object identity
    base_dice,          \* main(): base_dice, a list of references into heap
    rng,                \* state of the module-level random generator
    geometry_args,      \* arguments of the last compute_geometry call
    raised,             \* exception the last engine call ended with, or "none"
    calls,              \* the run_simulation invocations made so far
    yield_call          \* the last compute_yield_fraction call and its outcome

vars == <<substrate_type, substrate_params, yield_fraction, seed_setting, heap, base_dice,
          rng, geometry_args, raised, calls, yield_call>>

\* ------------------------------------------------------------------ bounds
MaxTrials == 2
RngModulus == 3
ExpScale == 100

\* random_seed is None: no seed given (real seeds are >= 0 here).
None == -1
\* geometry_args before any compute_geometry call.
NoArgs == [shot_width |-> 0, shot_height |-> 0, die_width |-> 0, die_height |-> 0,
           scribe_x |-> 0, scribe_y |-> 0, called |-> FALSE]

\* ------------------------------------------------------ integer arithmetic
\* Python's // on exact values: floor division, for either sign of b (b # 0).
\* Faulty variant: the quotient rounded up.
CeilDiv(a, b) ==
    IF b > 0
    THEN (IF a >= 0 THEN (a + b - 1) \div b ELSE -((-a) \div b))
    ELSE (IF a <= 0 THEN ((-a) + (-b) - 1) \div (-b) ELSE -(a \div (-b)))

FloorDiv(a, b) ==
    IF b > 0
    THEN (IF a >= 0 THEN a \div b ELSE -((-a + b - 1) \div b))
    ELSE (IF a <= 0 THEN (-a) \div (-b) ELSE -((a + (-b) - 1) \div (-b)))

\* numpy.arange(start, stop, step) for step # 0: ceil((stop-start)/step)
\* values start, start+step, ...; empty when that length is not positive.
ArangeLen(start, stop, step) ==
    LET n == -FloorDiv(-(stop - start), step) IN IF n > 0 THEN n ELSE 0

np_arange(start, stop, step) ==
    [k \in 1..ArangeLen(start, stop, step) |-> start + (k - 1) * step]

\* -------------------------------------------------------------- yield model
\* Real values are fixed-point numbers in units of 1/ExpScale; 1.0 is ExpScale.
\* math.exp(x) for x >= 0, by its power series: the terms x^n / n!.
RECURSIVE ExpTerms(_, _, _)
ExpTerms(x, n, term) ==
    IF term = 0 THEN 0 ELSE term + ExpTerms(x, n + 1, (term * x) \div ((n + 1) * ExpScale))

\* math.exp(x); for x < 0 as 1 / exp(-x).  exp(0) is exactly 1.0.
math_exp(x) ==
    IF x >= 0 THEN ExpTerms(x, 0, ExpScale)
    ELSE (ExpScale * ExpScale) \div ExpTerms(-x, 0, ExpScale)

\* The largest r in lo..hi with r * r <= n, by bisection.
RECURSIVE SqrtBetween(_, _, _)
SqrtBetween(n, lo, hi) ==
    IF lo = hi THEN lo
    ELSE LET mid == (lo + hi + 1) \div 2
         IN IF mid * mid <= n THEN SqrtBetween(n, mid, hi) ELSE SqrtBetween(n, lo, mid - 1)

\* math.sqrt(x) for x >= 0, rounded down.
math_sqrt(x) == SqrtBetween(x * ExpScale, 0, x + ExpScale)

\* D = defect_rate * (critical_area / 100.0)
DefectParameter(defect_rate, critical_area) ==
    (defect_rate * critical_area * ExpScale) \div 100

Returned(v) == [raised |-> "none", value |-> v]

\* Faulty variant: Murphy and Rectangular divide by D without the D != 0 test.
compute_yield_fraction_unguarded(defect_rate, critical_area, model) ==
    LET D == DefectParameter(defect_rate, critical_area)
        Q == ((ExpScale - math_exp(-D)) * ExpScale) \div D
    IN IF model = "Poisson" THEN Returned(math_exp(-D))
       ELSE IF model = "Murphy"
       THEN (IF D # 0 THEN Returned((Q * Q) \div ExpScale)
             ELSE [raised |-> "ZeroDivisionError", value |-> 0])
       ELSE IF model = "Rectangular"
       THEN (IF D # 0
             THEN Returned(((ExpScale - math_exp(-2 * D)) * ExpScale) \div (2 * D))
             ELSE [raised |-> "ZeroDivisionError", value |-> 0])
       ELSE IF model = "Moore" THEN Returned(math_exp(-math_sqrt(D)))
       ELSE IF model = "Seeds" THEN Returned((ExpScale * ExpScale) \div (ExpScale + D))
       ELSE Returned(math_exp(-D))

\* compute_yield_fraction: [raised, value].
compute_yield_fraction(defect_rate, critical_area, model) ==
    LET D == DefectParameter(defect_rate, critical_area)
        Q == ((ExpScale - math_exp(-D)) * ExpScale) \div D
    IN IF model = "Poisson" THEN Returned(math_exp(-D))
       ELSE IF model = "Murphy"
       THEN (IF D # 0 THEN Returned((Q * Q) \div ExpScale) ELSE Returned(ExpScale))
       ELSE IF model = "Rectangular"
       THEN (IF D # 0
             THEN Returned(((ExpScale - math_exp(-2 * D)) * ExpScale) \div (2 * D))
             ELSE Returned(ExpScale))
       ELSE IF model = "Moore" THEN Returned(math_exp(-math_sqrt(D)))
       ELSE IF model = "Seeds" THEN Returned((ExpScale * ExpScale) \div (ExpScale + D))
       ELSE Returned(math_exp(-D))

\* ---------------------------------------------------------------- geometry
\* Faulty variant: the wafer edge itself counts as outside.
is_inside_wafer_open(x, y, effective_radius) ==
    (x * x + y * y) < effective_radius * effective_radius

is_inside_wafer(x, y, effective_radius) ==
    (x * x + y * y) <= effective_radius * effective_radius

is_inside_panel(x, y, panel_width, panel_height, margin) ==
    (x >= margin) /\ (x <= panel_width - margin)
        /\ (y >= margin) /\ (y <= panel_height - margin)

Corners(die_x, die_y, die_width, die_height) ==
    << <<die_x, die_y>>,
       <<die_x + die_width, die_y>>,
       <<die_x, die_y + die_height>>,
       <<die_x + die_width, die_y + die_height>> >>

NewDie(die_x, die_y, die_width, die_height) ==
    [x |-> die_x, y |-> die_y,
     corners |-> Corners(die_x, die_y, die_width, die_height),
     status |-> "pending"]

Range0(n) == IF n > 0 THEN n ELSE 0

\* The dies of all shots, in loop order: shot_x, shot_y, i, j (j innermost).
DiceOfShots(xs, ys, nx, ny, a) ==
    LET cx    == Range0(nx)
        cy    == Range0(ny)
        total == Len(xs) * Len(ys) * cx * cy
    IN [k \in 1..total |->
          LET q  == k - 1
              j  == q % cy
              i  == (q \div cy) % cx
              sy == (q \div (cy * cx)) % Len(ys)
              sx == q \div (cy * cx * Len(ys))
          IN NewDie(xs[sx + 1] + i * (a.die_width + a.scribe_x),
                    ys[sy + 1] + j * (a.die_height + a.scribe_y),
                    a.die_width, a.die_height)]

\* compute_geometry: [raised, dice].  A zero shot step makes numpy.arange
\* divide by zero; a zero die pitch makes // divide by zero, in the first
\* shot tile, so only when there is a tile.
compute_geometry(stype, sparams, a) ==
    LET x0 == IF stype = "Wafer" THEN -sparams.radius ELSE 0
        x1 == IF stype = "Wafer" THEN sparams.radius ELSE sparams.panel_width
        y0 == IF stype = "Wafer" THEN -sparams.radius ELSE 0
        y1 == IF stype = "Wafer" THEN sparams.radius ELSE sparams.panel_height
    IN IF a.shot_width = 0 \/ a.shot_height = 0
       THEN [raised |-> "ZeroDivisionError", dice |-> <<>>]
       ELSE LET xs == np_arange(x0, x1, a.shot_width)
                ys == np_arange(y0, y1, a.shot_height)
            IN IF Len(xs) = 0 \/ Len(ys) = 0
               THEN [raised |-> "none", dice |-> <<>>]
               ELSE IF a.die_width + a.scribe_x = 0 \/ a.die_height + a.scribe_y = 0
               THEN [raised |-> "ZeroDivisionError", dice |-> <<>>]
               ELSE [raised |-> "none",
                     dice |-> DiceOfShots(xs, ys,
                        FloorDiv(a.shot_width + a.scribe_x, a.die_width + a.scribe_x),
                        FloorDiv(a.shot_height + a.scribe_y, a.die_height + a.scribe_y),
                        a)]

InsideCorner(c, stype, sparams) ==
    IF stype = "Wafer"
    THEN is_inside_wafer(c[1], c[2], sparams.effective_radius)
    ELSE is_inside_panel(c[1], c[2], sparams.panel_width, sparams.panel_height,
                         sparams.edge_loss)

classify_die(die, stype, sparams) ==
    LET inside_count ==
            Cardinality({k \in 1..Len(die.corners) :
                            InsideCorner(die.corners[k], stype, sparams)})
    IN IF inside_count = 4 THEN "good_physical"
       ELSE IF inside_count > 0 THEN "partial"
       ELSE "lost"

\* ------------------------------------------------------------ random module
\* random.seed(seed): the generator state is a function of the seed alone.
random_seed_state(seed) == seed % RngModulus

\* random.random(): the value drawn in state g, in units of 1/RngModulus.
random_value(g) == g

\* the generator state after one random.random().
random_next(g) == (g + 1) % RngModulus

\* -------------------------------------------------------------- heap, lists
Refs(list) == {list[k] : k \in 1..Len(list)}

Alloc(h, dice) == h \o dice

FreshRefs(h, n) == [k \in 1..n |-> Len(h) + k]

\* Faulty variant: no copy, the trial works on the base dictionaries themselves.
dice_alias(h, list) == [heap |-> h, refs |-> list]

\* [d.copy() for d in base_dice]: one new dictionary per die, same fields.
dice_copy(h, list) ==
    [heap |-> Alloc(h, [k \in 1..Len(list) |-> h[list[k]]]),
     refs |-> FreshRefs(h, Len(list))]

\* for d in list: d["status"] = classify_die(d, ...)
RECURSIVE ClassifyFrom(_, _, _, _, _)
ClassifyFrom(h, list, stype, sparams, k) ==
    IF k > Len(list)
    THEN h
    ELSE ClassifyFrom(
            [h EXCEPT ![list[k]].status = classify_die(h[list[k]], stype, sparams)],
            list, stype, sparams, k + 1)

ClassifyAll(h, list, stype, sparams) == ClassifyFrom(h, list, stype, sparams, 1)

\* ---------------------------------------------------------- inject_defects
RECURSIVE InjectFrom(_, _, _, _, _)
InjectFrom(h, g, dice_list, yf, k) ==
    IF k > Len(dice_list)
    THEN [heap |-> h, rng |-> g]
    ELSE IF h[dice_list[k]].status = "good_physical"
         THEN InjectFrom(
                [h EXCEPT ![dice_list[k]].status =
                    IF random_value(g) < yf THEN "good" ELSE "defective"],
                random_next(g), dice_list, yf, k + 1)
         ELSE InjectFrom(h, g, dice_list, yf, k + 1)

\* Faulty variant: the return sits inside the loop, so only the first die is visited.
inject_defects_first_only(h, g, dice_list, yf, seed) ==
    InjectFrom(h, IF seed # None THEN random_seed_state(seed) ELSE g,
               IF Len(dice_list) > 0 THEN <<dice_list[1]>> ELSE <<>>, yf, 1)

\* Faulty variant: the seed is ignored, the generator is never reseeded.
inject_defects_unseeded(h, g, dice_list, yf, seed) ==
    InjectFrom(h, g, dice_list, yf, 1)

\* Faulty variant: every die that is not lost is resolved, not only good_physical.
RECURSIVE InjectFromNotLost(_, _, _, _, _)
InjectFromNotLost(h, g, dice_list, yf, k) ==
    IF k > Len(dice_list)
    THEN [heap |-> h, rng |-> g]
    ELSE IF h[dice_list[k]].status # "lost"
         THEN InjectFromNotLost(
                [h EXCEPT ![dice_list[k]].status =
                    IF random_value(g) < yf THEN "good" ELSE "defective"],
                random_next(g), dice_list, yf, k + 1)
         ELSE InjectFromNotLost(h, g, dice_list, yf, k + 1)

inject_defects_not_lost(h, g, dice_list, yf, seed) ==
    InjectFromNotLost(h, IF seed # None THEN random_seed_state(seed) ELSE g,
                      dice_list, yf, 1)

\* Faulty variant: a value is drawn for every die, before its status is looked at.
RECURSIVE InjectFromDrawAll(_, _, _, _, _)
InjectFromDrawAll(h, g, dice_list, yf, k) ==
    IF k > Len(dice_list)
    THEN [heap |-> h, rng |-> g]
    ELSE IF h[dice_list[k]].status = "good_physical"
         THEN InjectFromDrawAll(
                [h EXCEPT ![dice_list[k]].status =
                    IF random_value(g) < yf THEN "good" ELSE "defective"],
                random_next(g), dice_list, yf, k + 1)
         ELSE InjectFromDrawAll(h, random_next(g), dice_list, yf, k + 1)

inject_defects_draw_all(h, g, dice_list, yf, seed) ==
    InjectFromDrawAll(h, IF seed # None THEN random_seed_state(seed) ELSE g,
                      dice_list, yf, 1)

\* Faulty variant: a die that fails the draw is marked lost instead of defective.
RECURSIVE InjectFromMarksLost(_, _, _, _, _)
InjectFromMarksLost(h, g, dice_list, yf, k) ==
    IF k > Len(dice_list)
    THEN [heap |-> h, rng |-> g]
    ELSE IF h[dice_list[k]].status = "good_physical"
         THEN InjectFromMarksLost(
                [h EXCEPT ![dice_list[k]].status =
                    IF random_value(g) < yf THEN "good" ELSE "lost"],
                random_next(g), dice_list, yf, k + 1)
         ELSE InjectFromMarksLost(h, g, dice_list, yf, k + 1)

inject_defects_marks_lost(h, g, dice_list, yf, seed) ==
    InjectFromMarksLost(h, IF seed # None THEN random_seed_state(seed) ELSE g,
                        dice_list, yf, 1)

inject_defects(h, g, dice_list, yf, seed) ==
    InjectFrom(h, IF seed # None THEN random_seed_state(seed) ELSE g,
               dice_list, yf, 1)

\* ----------------------------------------------------------- run_simulation
CountStatus(h, list, set) ==
    Cardinality({k \in 1..Len(list) : h[list[k]].status \in set})

\* Faulty variant: the defective share instead of the good share.
FabYieldDefectShare(count_good, count_defective) ==
    IF (count_good + count_defective) > 0
    THEN [num |-> count_defective, den |-> count_good + count_defective]
    ELSE [num |-> 0, den |-> 1]

\* count_good / (count_good + count_defective) as a fraction, else 0.
FabYield(count_good, count_defective) ==
    IF (count_good + count_defective) > 0
    THEN [num |-> count_good, den |-> count_good + count_defective]
    ELSE [num |-> 0, den |-> 1]

Tally(h, list) ==
    LET count_good      == CountStatus(h, list, {"good"})
        count_defective == CountStatus(h, list, {"defective"})
        count_partial   == CountStatus(h, list, {"partial"})
        count_lost      == CountStatus(h, list, {"lost"})
    IN [total         |-> Len(list),
        good_physical |-> CountStatus(h, list, {"good", "defective"}),
        good          |-> count_good,
        defective     |-> count_defective,
        partial       |-> count_partial,
        lost          |-> count_lost,
        fab_yield     |-> FabYield(count_good, count_defective),
        dice          |-> list]

\* Faulty variant: every trial is seeded with the base seed, without the offset.
TrialSeedNoOffset(random_seed, run) == random_seed

\* seed=random_seed + run if random_seed is not None else None
TrialSeed(random_seed, run) ==
    IF random_seed # None THEN random_seed + run ELSE None

RECURSIVE RunTrials(_, _, _, _, _, _, _, _, _, _)
RunTrials(run, sim_runs, h, g, base, stype, sparams, yf, random_seed, sim_results) ==
    IF run >= sim_runs
    THEN [heap |-> h, rng |-> g, sim_results |-> sim_results, raised |-> "none"]
    ELSE LET cp  == dice_copy(h, base)
             h1  == ClassifyAll(cp.heap, cp.refs, stype, sparams)
             inj == inject_defects(h1, g, cp.refs, yf, TrialSeed(random_seed, run))
         IN RunTrials(run + 1, sim_runs, inj.heap, inj.rng, base, stype, sparams,
                      yf, random_seed, Append(sim_results, Tally(inj.heap, cp.refs)))

run_simulation(sim_runs, h, g, base, stype, sparams, yf, random_seed) ==
    RunTrials(0, sim_runs, h, g, base, stype, sparams, yf, random_seed, <<>>)

\* ------------------------------------------------------------------ inputs
Wafer(radius, edge_loss) ==
    [type |-> "Wafer",
     params |-> [radius |-> radius, effective_radius |-> radius - edge_loss]]

Panel(panel_width, panel_height, edge_loss) ==
    [type |-> "Panel",
     params |-> [panel_width |-> panel_width, panel_height |-> panel_height,
                 edge_loss |-> edge_loss]]

\* Substrates of the simulation runs: usable extent positive and negative.
Substrates ==
    { Wafer(2, 0), Wafer(2, 5), Panel(3, 1, 0), Panel(3, 1, 1) }

\* Substrates of the geometry calls, with a type that is neither Wafer nor Panel.
GeometrySubstrates ==
    { Wafer(2, 0), Wafer(2, 2), Wafer(2, 5),
      Panel(3, 3, 0), Panel(3, 3, 1), Panel(3, 3, 2),
      [type |-> "Disk",
       params |-> [panel_width |-> 3, panel_height |-> 3, edge_loss |-> 0]] }

Reticle(sw, sh, dw, dh, gx, gy) ==
    [shot_width |-> sw, shot_height |-> sh, die_width |-> dw, die_height |-> dh,
     scribe_x |-> gx, scribe_y |-> gy, called |-> TRUE]

\* Reticle and die settings of the simulation runs.
ReticleSettings == { Reticle(4, 4, 1, 1, 1, 1) }

\* Reticle and die settings of the geometry calls, valid and invalid.
ShotDims == {-2, 0, 2, 3}
DieDims == {-1, 0, 1, 3}
ScribeGaps == {-1, 0, 1}
ReticleInputs ==
    { Reticle(sw, sh, dw, dh, gx, gy) :
        sw \in ShotDims, sh \in ShotDims, dw \in DieDims, dh \in DieDims,
        gx \in ScribeGaps, gy \in ScribeGaps }

YieldFractions == {2, RngModulus}
Seeds == {None, 0, 1}
TrialCounts == (-1)..MaxTrials

\* Yield model settings: defect rate (defects/cm2), critical area (mm2), model
\* name; "Gamma" is a name the model table does not hold.
DefectRates == {0, 1, 2}
CriticalAreas == {0, 10, 25, 50, 100, 150}
YieldModels == {"Poisson", "Murphy", "Rectangular", "Moore", "Seeds", "Gamma"}
\* yield_call before any compute_yield_fraction call.
NoYieldCall == [defect_rate |-> 0, critical_area |-> 0, model |-> "", called |-> FALSE,
                raised |-> "none", value |-> 0]

\* ----------------------------------------------------------------- actions
\* The inputs of a batch (substrate, yield fraction, seed, base dice) are
\* settled before its first run_simulation call; two calls are kept, which
\* is what comparing invocations needs.
\* main(): base_dice = compute_geometry(...)
ComputeGeometry(a) ==
    /\ calls = <<>>
    /\ LET r == compute_geometry(substrate_type, substrate_params, a)
       IN /\ raised' = r.raised
          /\ heap' = IF r.raised = "none" THEN r.dice ELSE heap
          /\ base_dice' = IF r.raised = "none"
                          THEN FreshRefs(<<>>, Len(r.dice)) ELSE base_dice
    /\ geometry_args' = a
    /\ UNCHANGED <<yield_call, substrate_type, substrate_params, yield_fraction,
                   seed_setting, rng, calls>>

\* main(): for d in base_dice: d["status"] = classify_die(d, ...)
ClassifyBase ==
    /\ calls = <<>>
    /\ base_dice # <<>>
    /\ heap' = ClassifyAll(heap, base_dice, substrate_type, substrate_params)
    /\ raised' = "none"
    /\ UNCHANGED <<yield_call, substrate_type, substrate_params, yield_fraction,
                   seed_setting, base_dice,
                   rng, geometry_args, calls>>

\* inject_defects(base_dice, yield_fraction, seed) called on the base list.
InjectBase(seed) ==
    /\ calls = <<>>
    /\ base_dice # <<>>
    /\ LET r == inject_defects(heap, rng, base_dice, yield_fraction, seed)
       IN /\ heap' = r.heap
          /\ rng' = r.rng
    /\ raised' = "none"
    /\ UNCHANGED <<yield_call, substrate_type, substrate_params, yield_fraction,
                   seed_setting, base_dice,
                   geometry_args, calls>>

\* sim_results = run_simulation(sim_runs, base_dice, ..., random_seed)
RunSimulation(sim_runs) ==
    /\ Len(calls) < 2
    /\ LET r == run_simulation(sim_runs, heap, rng, base_dice, substrate_type,
                               substrate_params, yield_fraction, seed_setting)
       IN /\ heap' = r.heap
          /\ rng' = r.rng
          /\ raised' = r.raised
          /\ calls' = Append(calls, [sim_runs |-> sim_runs,
                                     random_seed |-> seed_setting,
                                     rng_before |-> rng,
                                     raised |-> r.raised,
                                     sim_results |-> r.sim_results])
    /\ UNCHANGED <<yield_call, substrate_type, substrate_params, yield_fraction,
                   seed_setting, base_dice,
                   geometry_args>>

\* main(): yield_fraction = compute_yield_fraction(defect_rate, critical_area, yield_model)
ComputeYieldFraction(defect_rate, critical_area, model) ==
    /\ LET r == compute_yield_fraction(defect_rate, critical_area, model)
       IN yield_call' = [defect_rate |-> defect_rate, critical_area |-> critical_area,
                         model |-> model, called |-> TRUE,
                         raised |-> r.raised, value |-> r.value]
    /\ UNCHANGED <<substrate_type, substrate_params, yield_fraction, seed_setting, heap,
                   base_dice, rng, geometry_args, raised, calls>>

\* random.random() drawn from the module-level generator by other code.
AmbientRandom ==
    /\ Len(calls) < 2
    /\ rng' = random_next(rng)
    /\ UNCHANGED <<yield_call, substrate_type, substrate_params, yield_fraction,
                   seed_setting, heap,
                   base_dice, geometry_args, raised, calls>>

\* ----------------------------------------------------------- specifications
InitWith(S) ==
    /\ \E s \in S : substrate_type = s.type /\ substrate_params = s.params
    /\ yield_fraction \in YieldFractions
    /\ seed_setting \in Seeds
    /\ heap = <<>>
    /\ base_dice = <<>>
    /\ rng = 0
    /\ geometry_args = NoArgs
    /\ raised = "none"
    /\ calls = <<>>
    /\ yield_call = NoYieldCall

Init == InitWith(Substrates)

Next ==
    \/ \E a \in ReticleSettings : ComputeGeometry(a)
    \/ ClassifyBase
    \/ \E seed \in Seeds : InjectBase(seed)
    \/ \E n \in TrialCounts : RunSimulation(n)
    \/ AmbientRandom

Spec == Init /\ [][Next]_vars

\* The geometry builder and the classifier on valid and invalid inputs.
InitGeometry ==
    /\ InitWith(GeometrySubstrates)
    /\ yield_fraction = RngModulus
    /\ seed_setting = None

NextGeometry ==
    \/ /\ ~geometry_args.called
       /\ \E a \in ReticleInputs : ComputeGeometry(a)
    \/ ClassifyBase

SpecGeometry == InitGeometry /\ [][NextGeometry]_vars

\* The yield model on every model name, with and without defects.
InitYield ==
    /\ InitWith({Wafer(2, 0)})
    /\ yield_fraction = RngModulus
    /\ seed_setting = None

NextYield ==
    \E defect_rate \in DefectRates, critical_area \in CriticalAreas, model \in YieldModels :
        ComputeYieldFraction(defect_rate, critical_area, model)

SpecYield == InitYield /\ [][NextYield]_vars

\* ------------------------------------------------------ views of the results
\* The trials of all invocations: <<i, t>> is trial t (from 1) of invocation i.
Trials ==
    UNION { { <<i, t>> : t \in 1..Len(calls[i].sim_results) } : i \in 1..Len(calls) }

TrialResult(it) == calls[it[1]].sim_results[it[2]]

\* The die dictionaries a list refers to, as the caller reads them now.
DiceValues(list) == [k \in 1..Len(list) |-> heap[list[k]]]

StatusesOf(list) == [k \in 1..Len(list) |-> heap[list[k]].status]

\* A trial result with its dice read through the references.
ResultValue(r) == [r EXCEPT !.dice = DiceValues(r.dice)]

ResultValues(c) == [t \in 1..Len(c.sim_results) |-> ResultValue(c.sim_results[t])]

\* The generator state after n draws from state g.
RECURSIVE Advance(_, _)
Advance(g, n) == IF n = 0 THEN g ELSE Advance(random_next(g), n - 1)

\* ------------------------------------------------------------------ claims

\* C1: in every trial result returned by run_simulation, whatever statuses
\* the base dice carried on entry, good + defective + partial + lost = total:
\* at tally time no die of the trial is still pending or good_physical.
PartitionComplete ==
    \A it \in Trials :
        LET r == TrialResult(it)
        IN /\ r.good + r.defective + r.partial + r.lost = r.total
           /\ \A k \in 1..Len(r.dice) :
                 heap[r.dice[k]].status \notin {"pending", "good_physical"}

\* A trial with resolved and unresolved-by-geometry dice, run on base dice
\* that entered with statuses from an earlier injection.
PartitionWitness ==
    \E it \in Trials :
        LET r == TrialResult(it)
        IN /\ r.good + r.defective > 0
           /\ r.partial + r.lost > 0
           /\ \E k \in 1..Len(base_dice) :
                 heap[base_dice[k]].status \in {"good", "defective"}

\* C2: run_simulation with numTrials < 1 signals InvalidArgument to the
\* caller instead of returning a result sequence.
InvalidTrialsRejected ==
    \A i \in 1..Len(calls) :
        calls[i].sim_runs < 1 => calls[i].raised = "InvalidArgument"

\* The usable extent of the substrate is negative.
NegativeExtent ==
    IF substrate_type = "Wafer"
    THEN substrate_params.effective_radius < 0
    ELSE \/ substrate_params.panel_width - 2 * substrate_params.edge_loss < 0
         \/ substrate_params.panel_height - 2 * substrate_params.edge_loss < 0

\* C3: with a negative usable extent (Wafer: effective_radius < 0; Panel:
\* width or height less than twice the edge loss) no die is classified
\* good_physical, so every trial has good + defective = 0.
NegativeExtentYieldsNone ==
    NegativeExtent =>
        /\ \A k \in 1..Len(base_dice) :
              classify_die(heap[base_dice[k]], substrate_type, substrate_params)
                  # "good_physical"
        /\ \A it \in Trials :
              TrialResult(it).good + TrialResult(it).defective = 0

\* Reticle and die settings outside the stated constraints.
InvalidReticle(a) ==
    \/ a.shot_width <= 0 \/ a.shot_height <= 0
    \/ a.die_width <= 0 \/ a.die_height <= 0
    \/ a.scribe_x < 0 \/ a.scribe_y < 0

\* C4: a non-positive shot or die dimension, a negative scribe gap or a
\* substrate type other than Wafer or Panel is rejected with InvalidArgument
\* before any computation: no die is produced and no status is assigned.
InvalidInputRejected ==
    (geometry_args.called
        /\ (InvalidReticle(geometry_args) \/ substrate_type \notin {"Wafer", "Panel"}))
    => (raised = "InvalidArgument" /\ base_dice = <<>>)

\* C5: two invocations of run_simulation with the same numTrials, base dice,
\* substrate, yield fraction and the same seed (not None) return identical
\* TrialResult sequences (counts, fab_yield, per-die status sequence),
\* whatever state the generator was in before each invocation.
SeededRunsDeterministic ==
    \A i \in 1..Len(calls), j \in 1..Len(calls) :
        (/\ calls[i].random_seed # None
         /\ calls[i].random_seed = calls[j].random_seed
         /\ calls[i].sim_runs = calls[j].sim_runs)
        => ResultValues(calls[i]) = ResultValues(calls[j])

\* Two seeded invocations with equal arguments that drew random values and
\* started from different generator states.
SeededRunsWitness ==
    /\ Len(calls) = 2
    /\ calls[1].random_seed # None
    /\ calls[1].sim_runs = calls[2].sim_runs
    /\ calls[1].sim_runs > 1
    /\ calls[1].rng_before # calls[2].rng_before
    /\ \E t \in 1..Len(calls[1].sim_results) :
          /\ calls[1].sim_results[t].good > 0
          /\ calls[1].sim_results[t].defective > 0

\* The position of the first die of a trial that injection resolved.
FirstPhysical(r) ==
    { k \in 1..Len(r.dice) :
        /\ heap[r.dice[k]].status \in {"good", "defective"}
        /\ \A q \in 1..(k - 1) : heap[r.dice[q]].status \notin {"good", "defective"} }

\* C6: with base seed s, trial k injects defects with seed s + k, so the
\* first n results of a run of m >= n trials equal the n results of a run of
\* n trials on the same inputs.
TrialSeedIsIndexBased ==
    /\ \A i \in 1..Len(calls), j \in 1..Len(calls) :
          (/\ calls[i].random_seed # None
           /\ calls[i].random_seed = calls[j].random_seed
           /\ calls[i].sim_runs <= calls[j].sim_runs)
          => \A t \in 1..Len(calls[i].sim_results) :
                ResultValue(calls[i].sim_results[t])
                    = ResultValue(calls[j].sim_results[t])
    /\ \A it \in Trials :
          calls[it[1]].random_seed # None
          => \A k \in FirstPhysical(TrialResult(it)) :
                heap[TrialResult(it).dice[k]].status =
                    IF random_value(random_seed_state(
                            calls[it[1]].random_seed + (it[2] - 1))) < yield_fraction
                    THEN "good" ELSE "defective"

\* A run of one trial and a run of two trials with the same seed, whose
\* second trial differs from its first.
TrialSeedWitness ==
    /\ Len(calls) = 2
    /\ calls[1].random_seed # None
    /\ calls[1].sim_runs = 1
    /\ calls[2].sim_runs = 2
    /\ calls[2].sim_results[1].good # calls[2].sim_results[2].good

\* No trial shares a die dictionary with the base list or another trial.
TrialsIsolated ==
    /\ \A it \in Trials : Refs(TrialResult(it).dice) \cap Refs(base_dice) = {}
    /\ \A it \in Trials, ju \in Trials :
          it # ju => Refs(TrialResult(it).dice) \cap Refs(TrialResult(ju).dice) = {}

\* C7: run_simulation never mutates the base dice list it is given: every
\* base die keeps x, y, corners and status, and a status written in one
\* trial's die copy is not visible in the base dice or in another trial.
BaseDiceNotMutated ==
    [][ Len(calls') > Len(calls)
        => /\ base_dice' = base_dice
           /\ DiceValues(base_dice)' = DiceValues(base_dice)
           /\ TrialsIsolated' ]_vars

\* Two trials of one run that wrote different statuses, none of them the
\* status the base dice still carry.
BaseDiceWitness ==
    \E it \in Trials, ju \in Trials :
        /\ it[1] = ju[1]
        /\ StatusesOf(TrialResult(it).dice) # StatusesOf(TrialResult(ju).dice)
        /\ StatusesOf(base_dice) # StatusesOf(TrialResult(it).dice)
        /\ StatusesOf(base_dice) # StatusesOf(TrialResult(ju).dice)
        /\ \E k \in 1..Len(base_dice) : heap[base_dice[k]].status = "pending"

\* What one inject_defects call on the base list leaves as it was.
InjectFrame ==
    /\ base_dice' = base_dice
    /\ Len(heap') = Len(heap)
    /\ \A r \in 1..Len(heap) :
          /\ heap'[r].x = heap[r].x
          /\ heap'[r].y = heap[r].y
          /\ heap'[r].corners = heap[r].corners
          /\ heap[r].status # "good_physical" => heap'[r].status = heap[r].status

\* C8: inject_defects changes only the status of dies that are good_physical
\* on entry: every other die keeps its status, and x, y, corners, the length
\* and the order of the die sequence are unchanged for all dies.
InjectTouchesOnlyPhysical ==
    [][ (\E seed \in Seeds : InjectBase(seed)) => InjectFrame ]_vars

\* After an injection: dies resolved by it next to dies it left partial or
\* lost.
InjectFrameWitness ==
    /\ calls = <<>>
    /\ \E k \in 1..Len(base_dice) : heap[base_dice[k]].status \in {"good", "defective"}
    /\ \E k \in 1..Len(base_dice) : heap[base_dice[k]].status \in {"partial", "lost"}

\* The good_physical dies before position k, and the outcome of a call that
\* gives the n-th of them the n-th value drawn from the start state.
PhysicalBefore(list, k) ==
    Cardinality({q \in 1..(k - 1) : heap[list[q]].status = "good_physical"})

InjectPost(seed) ==
    LET start == IF seed # None THEN random_seed_state(seed) ELSE rng
    IN /\ \A k \in 1..Len(base_dice) :
             heap[base_dice[k]].status = "good_physical"
             => heap'[base_dice[k]].status =
                   IF random_value(Advance(start, PhysicalBefore(base_dice, k)))
                        < yield_fraction
                   THEN "good" ELSE "defective"
       /\ rng' = Advance(start, PhysicalBefore(base_dice, Len(base_dice) + 1))
       /\ \A k \in 1..Len(base_dice) : heap'[base_dice[k]].status # "good_physical"

\* C9: inject_defects consumes exactly one value of the random stream per
\* good_physical die, in sequence order, and none for other dies: the n-th
\* good_physical die becomes good if the n-th draw is < yieldFraction and
\* defective otherwise; afterwards no die is good_physical.
InjectDrawsInOrder ==
    [][ \A seed \in Seeds : InjectBase(seed) => InjectPost(seed) ]_vars

\* After an injection into good_physical, lost, good_physical, lost: the
\* first draw made the first die good, the second made the third defective.
InjectDrawsWitness ==
    /\ calls = <<>>
    /\ StatusesOf(base_dice) = <<"good", "lost", "defective", "lost">>

\* C10: in every trial result fab_yield = good / (good + defective) when
\* good + defective > 0 and 0 otherwise, hence 0 <= fab_yield <= 1.
FabYieldDefined ==
    \A it \in Trials :
        LET r == TrialResult(it)
            f == r.fab_yield
        IN /\ r.good = Cardinality({k \in 1..Len(r.dice) : heap[r.dice[k]].status = "good"})
           /\ r.defective =
                 Cardinality({k \in 1..Len(r.dice) : heap[r.dice[k]].status = "defective"})
           /\ f.den > 0
           /\ IF r.good + r.defective > 0
              THEN f.num * (r.good + r.defective) = r.good * f.den
              ELSE f.num = 0
           /\ 0 <= f.num /\ f.num <= f.den

\* A trial with both good and defective dies: a yield strictly between 0 and 1.
FabYieldWitness ==
    \E it \in Trials : TrialResult(it).good > 0 /\ TrialResult(it).defective > 0

\* C11: compute_yield_fraction with defect_rate = 0 returns exactly 1.0 for
\* every model name (Poisson, Murphy, Rectangular, Moore, Seeds and an
\* unrecognized name), for any critical_area >= 0, without a division error.
ZeroDefectsYieldOne ==
    (yield_call.called /\ yield_call.defect_rate = 0)
    => (yield_call.raised = "none" /\ yield_call.value = ExpScale)

\* A Murphy call with no defects and a positive critical area.
ZeroDefectsWitness ==
    /\ yield_call.called
    /\ yield_call.defect_rate = 0
    /\ yield_call.critical_area > 0
    /\ yield_call.model = "Murphy"

\* A corner lies in the closed usable region of the configured substrate.
InClosedRegion(c) ==
    IF substrate_type = "Wafer"
    THEN c[1] * c[1] + c[2] * c[2]
            <= substrate_params.effective_radius * substrate_params.effective_radius
    ELSE /\ substrate_params.edge_loss <= c[1]
         /\ c[1] <= substrate_params.panel_width - substrate_params.edge_loss
         /\ substrate_params.edge_loss <= c[2]
         /\ c[2] <= substrate_params.panel_height - substrate_params.edge_loss

CornersInside(die) == Cardinality({k \in 1..4 : InClosedRegion(die.corners[k])})

\* A corner lies exactly on the edge of the usable region.
OnBoundary(c) ==
    IF substrate_type = "Wafer"
    THEN c[1] * c[1] + c[2] * c[2]
            = substrate_params.effective_radius * substrate_params.effective_radius
    ELSE InClosedRegion(c)
         /\ \/ c[1] \in {substrate_params.edge_loss,
                         substrate_params.panel_width - substrate_params.edge_loss}
            \/ c[2] \in {substrate_params.edge_loss,
                         substrate_params.panel_height - substrate_params.edge_loss}

ClassifyPost ==
    \A k \in 1..Len(base_dice) :
        LET n == CornersInside(heap[base_dice[k]])
        IN heap'[base_dice[k]].status =
               IF n = 4 THEN "good_physical" ELSE IF n >= 1 THEN "partial" ELSE "lost"

\* C12: classify_die returns good_physical exactly when all 4 corners satisfy
\* the inside-test, partial when 1 to 3 do and lost when none does; the test
\* is the closed region (Wafer: cx^2 + cy^2 <= effective_radius^2; Panel:
\* margin <= cx <= panel_width - margin, and the same for cy), a corner on the
\* boundary counts as inside, and the die's current status plays no part.
ClassifyByClosedRegion ==
    [][ (ClassifyBase /\ substrate_type \in {"Wafer", "Panel"}) => ClassifyPost ]_vars

\* A classified wafer die that is partial only because corners on the edge of
\* the usable region count as inside.
ClassifyBoundaryWitness ==
    /\ raised = "none"
    /\ substrate_type = "Wafer"
    /\ \E k \in 1..Len(base_dice) :
          LET die == heap[base_dice[k]]
          IN /\ die.status = "partial"
             /\ \A i \in 1..4 : InClosedRegion(die.corners[i]) => OnBoundary(die.corners[i])

\* Positive shot and die dimensions and non-negative scribe gaps.
ValidReticle(a) ==
    /\ a.called
    /\ a.shot_width > 0 /\ a.shot_height > 0
    /\ a.die_width > 0 /\ a.die_height > 0
    /\ a.scribe_x >= 0 /\ a.scribe_y >= 0

\* Origins of the shot tiles along one axis: start, start + step, ... below stop.
TileOrigins(start, stop, step) ==
    {v \in {start + k * step : k \in 0..(stop - start)} : v < stop}

TilesX ==
    IF substrate_type = "Wafer"
    THEN TileOrigins(-substrate_params.radius, substrate_params.radius,
                     geometry_args.shot_width)
    ELSE TileOrigins(0, substrate_params.panel_width, geometry_args.shot_width)

TilesY ==
    IF substrate_type = "Wafer"
    THEN TileOrigins(-substrate_params.radius, substrate_params.radius,
                     geometry_args.shot_height)
    ELSE TileOrigins(0, substrate_params.panel_height, geometry_args.shot_height)

\* Dies per shot along each axis, as the floor of the pitch quotient.
DiesPerShotX ==
    (geometry_args.shot_width + geometry_args.scribe_x)
        \div (geometry_args.die_width + geometry_args.scribe_x)

DiesPerShotY ==
    (geometry_args.shot_height + geometry_args.scribe_y)
        \div (geometry_args.die_height + geometry_args.scribe_y)

\* The base dies that lie entirely within the shot tile at (tx, ty).
DiesWithinTile(tx, ty) ==
    {k \in 1..Len(base_dice) :
        LET die == heap[base_dice[k]]
        IN /\ tx <= die.x
           /\ die.x + geometry_args.die_width <= tx + geometry_args.shot_width
           /\ ty <= die.y
           /\ die.y + geometry_args.die_height <= ty + geometry_args.shot_height}

\* C13: compute_geometry places in every shot tile exactly nx * ny dies,
\* nx = floor((shot_width + scribe_x) / (die_width + scribe_x)) and ny
\* likewise, each die entirely within its own tile; when a die is larger than
\* the shot on an axis the count is 0 and the result is an empty die sequence,
\* without error.
TilesHoldFloorCount ==
    (ValidReticle(geometry_args) /\ substrate_type \in {"Wafer", "Panel"})
    => /\ raised = "none"
       /\ \A tx \in TilesX, ty \in TilesY :
             Cardinality(DiesWithinTile(tx, ty)) = DiesPerShotX * DiesPerShotY
       /\ Len(base_dice)
             = Cardinality(TilesX) * Cardinality(TilesY) * DiesPerShotX * DiesPerShotY
       /\ (geometry_args.die_width > geometry_args.shot_width
           \/ geometry_args.die_height > geometry_args.shot_height) => base_dice = <<>>

\* Several tiles, each filled with more than one die, where the pitch does
\* not divide the shot evenly along x.
TilesFilledWitness ==
    /\ ValidReticle(geometry_args)
    /\ substrate_type \in {"Wafer", "Panel"}
    /\ Cardinality(TilesX) * Cardinality(TilesY) > 1
    /\ DiesPerShotX * DiesPerShotY > 1
    /\ (geometry_args.shot_width + geometry_args.scribe_x)
          % (geometry_args.die_width + geometry_args.scribe_x) # 0
    /\ Len(base_dice) > 0

\* Two trial results agree on everything the geometry decides.
SameGeometryCounts(r1, r2) ==
    /\ r1.total = r2.total
    /\ r1.partial = r2.partial
    /\ r1.lost = r2.lost
    /\ r1.good_physical = r2.good_physical
    /\ Len(r1.dice) = Len(r2.dice)
    /\ \A p \in 1..Len(r1.dice) :
          LET s1 == heap[r1.dice[p]].status
              s2 == heap[r2.dice[p]].status
          IN s1 # s2 => {s1, s2} = {"good", "defective"}

\* C14: within one run_simulation batch all trials have the same total,
\* partial, lost and good_physical counts, good_physical being good +
\* defective, and the status at a position differs between two trials only if
\* the die is good in one and defective in the other.
TrialsShareGeometry ==
    \A i \in 1..Len(calls) :
        \A t1, t2 \in 1..Len(calls[i].sim_results) :
            LET r1 == calls[i].sim_results[t1]
                r2 == calls[i].sim_results[t2]
            IN /\ r1.good_physical = r1.good + r1.defective
               /\ SameGeometryCounts(r1, r2)

\* A batch of two trials that resolve some die differently, on a substrate
\* that also has partial or lost dies.
TrialsShareGeometryWitness ==
    \E i \in 1..Len(calls) :
        /\ Len(calls[i].sim_results) >= 2
        /\ LET r1 == calls[i].sim_results[1]
               r2 == calls[i].sim_results[2]
           IN /\ r1.partial + r1.lost > 0
              /\ r1.good # r2.good
              /\ \E p \in 1..Len(r1.dice) :
                    heap[r1.dice[p]].status # heap[r2.dice[p]].status

\* The good/defective assignment a trial started on heap h with generator
\* state g would make: the statuses of the one trial of
\* run_simulation(1, base_dice, ...).
TrialAssignmentFrom(h, g) ==
    LET r == run_simulation(1, h, g, base_dice, substrate_type, substrate_params,
                            yield_fraction, seed_setting)
    IN [k \in 1..Len(r.sim_results[1].dice) |-> r.heap[r.sim_results[1].dice[k]].status]

\* C15: trials share no mutable random state: the good/defective assignment
\* of a trial is determined only by its own die copy and its own random
\* stream, so it is the same whichever other inject_defects calls run before
\* it, also for an unseeded trial, whose draws the seeding done by another
\* call must not affect.
TrialUnaffectedByOtherCalls ==
    [][ (\E seed \in Seeds \ {None} : InjectBase(seed))
            => TrialAssignmentFrom(heap', rng') = TrialAssignmentFrom(heap, rng) ]_vars

====
